---- MODULE Spec2Model ----
(***************************************************************************)
(* A model of the YouTube transcript fetcher: the identifier resolver      *)
(* get_video_id, the transcript formatter format_transcript, the HTTP      *)
(* handlers of new_app.py and the Streamlit script of main.py.             *)
(*                                                                         *)
(* A Python str is a sequence of one-character strings, so that slicing,   *)
(* splitting, searching and matching are computed rather than assumed.     *)
(* None is a value that is no str.  A float is a count of tenths (Scale).  *)
(***************************************************************************)
EXTENDS Integers, Sequences, FiniteSets, TLC

VARIABLES
    url,                \* the input string (query parameter / text input)
    impl,               \* which source file's function a pure-function run uses
    result,             \* what a get_video_id run returned, and how
    transcript,         \* the raw cue sequence handed to format_transcript
    formatted,          \* format_transcript's value
    app,                \* "transcript" | "languages" | "ui" | "none"
    pc,                 \* position of the handler / script run
    language,           \* the language query parameter
    show_advanced,      \* the "Show advanced options" checkbox
    button,             \* whether "Get Transcript" was pressed in this run
    video_id,           \* the handler's local video_id
    selected_language,  \* main.py's selected_language
    selector_shown,     \* whether st.selectbox was rendered
    lookup,             \* outcome of the language lookup of this run
    calls,              \* the calls made to YouTubeTranscriptApi, in order
    response            \* the HTTP response / the UI's messages

vars == <<url, impl, result, transcript, formatted, app, pc, language,
          show_advanced, button, video_id, selected_language, selector_shown,
          lookup, calls, response>>

----------------------------------------------------------------------------
(* Values and characters *)

None == <<"None">>

Truthy(x) == x # None /\ x # <<>>

LowerCase == <<"a", "b", "c", "d", "e", "f", "g", "h", "i", "j", "k", "l", "m",
        "n", "o", "p", "q", "r", "s", "t", "u", "v", "w", "x", "y", "z">>
UpperCase == <<"A", "B", "C", "D", "E", "F", "G", "H", "I", "J", "K", "L", "M",
        "N", "O", "P", "Q", "R", "S", "T", "U", "V", "W", "X", "Y", "Z">>
DigitChars == <<"0", "1", "2", "3", "4", "5", "6", "7", "8", "9">>

Range(s) == {s[i] : i \in 1..Len(s)}

Letters == Range(LowerCase) \cup Range(UpperCase)

\* str.strip() with no argument removes whitespace; of the ASCII whitespace
\* these are the characters a TLA+ string can name
Whitespace == {" ", "\t", "\n", "\r", "\f"}

SetMin(S) == CHOOSE x \in S : \A y \in S : x <= y
SetMax(S) == CHOOSE x \in S : \A y \in S : x >= y

\* s[i:] for a 1-based i
From(s, i) == SubSeq(s, i, Len(s))

\* s.find(c, start): the first index >= start holding c, 0 when none
Find(s, c, start) ==
    LET hits == {i \in start..Len(s) : s[i] = c}
    IN IF hits = {} THEN 0 ELSE SetMin(hits)

\* s.rfind(c)
RFind(s, c) ==
    LET hits == {i \in 1..Len(s) : s[i] = c}
    IN IF hits = {} THEN 0 ELSE SetMax(hits)

StartsWith(s, p) == Len(s) >= Len(p) /\ SubSeq(s, 1, Len(p)) = p

\* needle in s
Contains(s, needle) ==
    \E i \in 1..(Len(s) - Len(needle) + 1) :
        SubSeq(s, i, i + Len(needle) - 1) = needle

RECURSIVE Split(_, _)
\* s.split(c)
Split(s, c) ==
    LET i == Find(s, c, 1)
    IN IF i = 0 THEN <<s>>
       ELSE <<SubSeq(s, 1, i - 1)>> \o Split(From(s, i + 1), c)

\* s.split(c, 1)
Split1(s, c) ==
    LET i == Find(s, c, 1)
    IN IF i = 0 THEN <<s>> ELSE <<SubSeq(s, 1, i - 1), From(s, i + 1)>>

LowerChar(c) ==
    IF \E i \in 1..Len(UpperCase) : UpperCase[i] = c
    THEN LowerCase[CHOOSE i \in 1..Len(UpperCase) : UpperCase[i] = c]
    ELSE c

UpperChar(c) ==
    IF \E i \in 1..Len(LowerCase) : LowerCase[i] = c
    THEN UpperCase[CHOOSE i \in 1..Len(LowerCase) : LowerCase[i] = c]
    ELSE c

\* s.lower()
Lower(s) == [i \in 1..Len(s) |-> LowerChar(s[i])]

\* s.replace(a, b) for one-character a and b
Replace(s, a, b) == [i \in 1..Len(s) |-> IF s[i] = a THEN b ELSE s[i]]

\* s with every character of cs removed
Without(s, cs) == SelectSeq(s, LAMBDA c : c \notin cs)

\* url.strip()
strip(s) ==
    LET keep == {i \in 1..Len(s) : s[i] \notin Whitespace}
    IN IF keep = {} THEN <<>> ELSE SubSeq(s, SetMin(keep), SetMax(keep))

\* s.lstrip(chars)
lstrip(s, cs) ==
    LET keep == {i \in 1..Len(s) : s[i] \notin cs}
    IN IF keep = {} THEN <<>> ELSE From(s, SetMin(keep))

----------------------------------------------------------------------------
(* re.match(r'^[a-zA-Z0-9_-]{11}$', url) *)

IdLen == 11

IdChars == Letters \cup Range(DigitChars) \cup {"_", "-"}

AllIdChars(s) == \A i \in 1..Len(s) : s[i] \in IdChars

\* the shape the pattern names: exactly IdLen characters of the class
IsVideoId(s) == Len(s) = IdLen /\ AllIdChars(s)

\* the pattern with '-' left out of the class
re_match_id_no_dash(s) ==
    /\ Len(s) = IdLen
    /\ \A i \in 1..Len(s) : s[i] \in IdChars \ {"-"}

\* Python's $ also matches just before a newline that ends the string
re_match_id(s) ==
    \/ IsVideoId(s)
    \/ /\ Len(s) = IdLen + 1
       /\ s[Len(s)] = "\n"
       /\ IsVideoId(SubSeq(s, 1, IdLen))

----------------------------------------------------------------------------
(* urllib.parse.urlparse, .hostname and parse_qs, as the resolver uses them *)

SchemeChars == Letters \cup Range(DigitChars) \cup {"+", "-", "."}

\* the schemes of uses_params the inputs can name
UsesParams == {<<>>, <<"h", "t", "t", "p">>, <<"h", "t", "t", "p", "s">>, <<"f",
        "t", "p">>}

\* urlsplit's leading strip and removal of tab, CR and LF
urlsplit_clean(s) == Without(lstrip(s, Whitespace), {"\t", "\r", "\n"})

\* scheme and rest: url[:i].lower(), url[i+1:] when url[:i] is a scheme
split_scheme(s) ==
    LET i == Find(s, ":", 1)
    IN IF /\ i > 1
          /\ s[1] \in Letters
          /\ \A k \in 1..(i - 1) : s[k] \in SchemeChars
       THEN [scheme |-> Lower(SubSeq(s, 1, i - 1)), rest |-> From(s, i + 1)]
       ELSE [scheme |-> <<>>, rest |-> s]

\* _splitnetloc(url, 2) when url[:2] == '//'
split_netloc(s) ==
    IF StartsWith(s, <<"/", "/">>)
    THEN LET stops == {i \in 3..Len(s) : s[i] \in {"/", "?", "#"}}
             delim == IF stops = {} THEN Len(s) + 1 ELSE SetMin(stops)
         IN [netloc |-> SubSeq(s, 3, delim - 1), rest |-> From(s, delim)]
    ELSE [netloc |-> <<>>, rest |-> s]

\* urlsplit raises ValueError("Invalid IPv6 URL") on an unmatched bracket
\* (a bracketed host, which urlsplit validates as an IP literal, is in no
\* input here)
urlparse_raises(s) ==
    LET n == split_netloc(split_scheme(urlsplit_clean(s)).rest).netloc
    IN ("[" \in Range(n)) # ("]" \in Range(n))

\* _splitparams(url)
split_params(path) ==
    LET slash == RFind(path, "/")
        i == Find(path, ";", IF slash = 0 THEN 1 ELSE slash)
    IN IF i = 0 THEN [path |-> path, params |-> <<>>]
       ELSE [path |-> SubSeq(path, 1, i - 1), params |-> From(path, i + 1)]

urlparse(s) ==
    LET sch == split_scheme(urlsplit_clean(s))
        net == split_netloc(sch.rest)
        frag == Split1(net.rest, "#")
        qry == Split1(frag[1], "?")
        par == IF sch.scheme \in UsesParams
               THEN split_params(qry[1])
               ELSE [path |-> qry[1], params |-> <<>>]
    IN [scheme |-> sch.scheme,
        netloc |-> net.netloc,
        path |-> par.path,
        params |-> par.params,
        query |-> IF Len(qry) = 2 THEN qry[2] ELSE <<>>,
        fragment |-> IF Len(frag) = 2 THEN frag[2] ELSE <<>>]

\* ParseResult.hostname: after the last '@', before the first ':', lowered
\* up to a '%'; None when empty
hostname(parsed) ==
    LET at == RFind(parsed.netloc, "@")
        hostinfo == From(parsed.netloc, at + 1)
        colon == Find(hostinfo, ":", 1)
        host == IF colon = 0 THEN hostinfo ELSE SubSeq(hostinfo, 1, colon - 1)
        pct == Find(host, "%", 1)
    IN IF host = <<>> THEN None
       ELSE IF pct = 0 THEN Lower(host)
       ELSE Lower(SubSeq(host, 1, pct - 1)) \o From(host, pct)

\* the characters of codes 32 to 126, in order (the grave accent, which no
\* string of the module can hold, by its name)
Printable ==
    <<" ", "!", "\"", "#", "$", "%", "&", "'", "(", ")", "*", "+", ",", "-",
      ".", "/", "0", "1", "2", "3", "4", "5", "6", "7", "8", "9", ":", ";",
      "<", "=", ">", "?", "@", "A", "B", "C", "D", "E", "F", "G", "H", "I",
      "J", "K", "L", "M", "N", "O", "P", "Q", "R", "S", "T", "U", "V", "W",
      "X", "Y", "Z", "[", "\\", "]", "^", "_">>
    \o <<"grave">>
    \o <<"a", "b", "c", "d", "e", "f", "g", "h", "i", "j", "k", "l", "m", "n",
         "o", "p", "q", "r", "s", "t", "u", "v", "w", "x", "y", "z", "{", "|",
         "}", "~">>

HexDigits == <<"0", "1", "2", "3", "4", "5", "6", "7", "8", "9", "A", "B", "C",
        "D", "E", "F">>

IsHex(c) == UpperChar(c) \in Range(HexDigits)

HexValue(c) ==
    (CHOOSE i \in 1..Len(HexDigits) : HexDigits[i] = UpperChar(c)) - 1

RECURSIVE unquote(_)
\* unquote(s): each %XX that names a printable ASCII character is replaced
\* by it, and a '%' that opens no escape is kept (escapes of other bytes,
\* which decode as control characters or as UTF-8, are in no input here)
unquote(s) ==
    IF s = <<>> THEN <<>>
    ELSE IF /\ s[1] = "%"
            /\ Len(s) >= 3
            /\ IsHex(s[2])
            /\ IsHex(s[3])
            /\ ((16 * HexValue(s[2])) + HexValue(s[3])) \in 32..126
    THEN <<Printable[((16 * HexValue(s[2])) + HexValue(s[3])) - 31]>>
         \o unquote(From(s, 4))
    ELSE <<s[1]>> \o unquote(Tail(s))

\* parse_qsl(query): the (name, value) pairs, blank values dropped
parse_qsl(query) ==
    LET fields == IF query = <<>> THEN <<>> ELSE Split(query, "&")
        good == SelectSeq(fields,
                    LAMBDA f : f # <<>> /\ Len(Split1(f, "=")) = 2
                               /\ Split1(f, "=")[2] # <<>>)
    IN [i \in 1..Len(good) |->
            [name |-> unquote(Replace(Split1(good[i], "=")[1], "+", " ")),
             value |-> unquote(Replace(Split1(good[i], "=")[2], "+", " "))]]

\* the first value of the query, whatever its name
query_first_any_key(query, key) ==
    LET pairs == parse_qsl(query)
    IN IF pairs = <<>> THEN None ELSE pairs[1].value

\* parse_qs(query).get(key, [None])[0]
query_first(query, key) ==
    LET pairs == parse_qsl(query)
        hits == {i \in 1..Len(pairs) : pairs[i].name = key}
    IN IF hits = {} THEN None ELSE pairs[SetMin(hits)].value

----------------------------------------------------------------------------
(* get_video_id: the value returned, the return statement that produced   *)
(* it and whether urlparse had been called by then                        *)

Ret(value, branch, parsed) ==
    [ret |-> value, branch |-> branch, parsed |-> parsed]

ShortHosts == {<<"y", "o", "u", "t", "u", ".", "b", "e">>, <<"w", "w", "w",
        ".", "y", "o", "u", "t", "u", ".", "b", "e">>}
MainHosts == {<<"y", "o", "u", "t", "u", "b", "e", ".", "c", "o", "m">>, <<"w",
        "w", "w", ".", "y", "o", "u", "t", "u", "b", "e", ".", "c", "o", "m">>}

\* the dispatch with the slices off by one: path[0:] and split('/')[1]
dispatch_off_by_one(parsed_url) ==
    IF hostname(parsed_url) \in ShortHosts
    THEN Ret(parsed_url.path, "short", TRUE)
    ELSE IF hostname(parsed_url) \in MainHosts
    THEN IF parsed_url.path = <<"/", "w", "a", "t", "c", "h">>
         THEN Ret(query_first(parsed_url.query, <<"v">>), "watch", TRUE)
         ELSE IF \/ StartsWith(parsed_url.path, <<"/", "e", "m", "b", "e", "d",
                    "/">>)
                 \/ StartsWith(parsed_url.path, <<"/", "v", "/">>)
         THEN Ret(Split(parsed_url.path, "/")[2], "embed", TRUE)
         ELSE Ret(None, "unsupported", TRUE)
    ELSE Ret(None, "unsupported", TRUE)

\* new_app.py: the host dispatch on the parsed URL
dispatch(parsed_url) ==
    IF hostname(parsed_url) \in ShortHosts
    THEN Ret(From(parsed_url.path, 2), "short", TRUE)
    ELSE IF hostname(parsed_url) \in MainHosts
    THEN IF parsed_url.path = <<"/", "w", "a", "t", "c", "h">>
         THEN Ret(query_first(parsed_url.query, <<"v">>), "watch", TRUE)
         ELSE IF \/ StartsWith(parsed_url.path, <<"/", "e", "m", "b", "e", "d",
                    "/">>)
                 \/ StartsWith(parsed_url.path, <<"/", "v", "/">>)
         THEN Ret(Split(parsed_url.path, "/")[3], "embed", TRUE)
         ELSE Ret(None, "unsupported", TRUE)
    ELSE Ret(None, "unsupported", TRUE)

\* new_app.py
get_video_id_run(u) ==
    IF ~Truthy(u) THEN Ret(None, "empty", FALSE)
    ELSE IF re_match_id(u) THEN Ret(u, "direct", FALSE)
    ELSE IF urlparse_raises(strip(u)) THEN Ret(None, "except", TRUE)
    ELSE dispatch(urlparse(strip(u)))

get_video_id(u) == get_video_id_run(u).ret

\* main.py: the host dispatch on the parsed URL
main_dispatch(parsed_url) ==
    IF hostname(parsed_url) \in ShortHosts
    THEN Ret(From(parsed_url.path, 2), "short", TRUE)
    ELSE IF hostname(parsed_url) \in MainHosts
    THEN IF parsed_url.path = <<"/", "w", "a", "t", "c", "h">>
         THEN Ret(query_first(parsed_url.query, <<"v">>), "watch", TRUE)
         ELSE IF \/ StartsWith(parsed_url.path, <<"/", "e", "m", "b", "e", "d",
                    "/">>)
                 \/ StartsWith(parsed_url.path, <<"/", "v", "/">>)
         THEN Ret(Split(parsed_url.path, "/")[3], "embed", TRUE)
         ELSE Ret(None, "unsupported", TRUE)
    ELSE Ret(None, "unsupported", TRUE)

\* main.py
main_get_video_id_run(u) ==
    IF ~Truthy(u) THEN Ret(None, "empty", FALSE)
    ELSE IF re_match_id(u) THEN Ret(u, "direct", FALSE)
    ELSE IF urlparse_raises(strip(u)) THEN Ret(None, "except", TRUE)
    ELSE main_dispatch(urlparse(strip(u)))

main_get_video_id(u) == main_get_video_id_run(u).ret

----------------------------------------------------------------------------
(* The inputs: bare tokens and URLs built around them, padded or not *)

MaxTail == 2

Stem == <<"d", "Q", "w", "4", "w", "9", "_", "g", "X", "c">>
TailChars == {"Q", "-", "!"}

\* the tokens: Stem followed by up to MaxTail more characters, so that
\* tokens one short of, of exactly and beyond IdLen occur
Tokens == {Stem \o t : t \in UNION {[1..k -> TailChars] : k \in 0..MaxTail}}

Hosts == {<<"y", "o", "u", "t", "u", ".", "b", "e">>, <<"w", "w", "w", ".",
        "y", "o", "u", "t", "u", ".", "b", "e">>, <<"y", "o", "u", "t", "u",
        "b", "e", ".", "c", "o", "m">>, <<"w", "w", "w", ".", "y", "o", "u",
        "t", "u", "b", "e", ".", "c", "o", "m">>,
          <<"W", "W", "W", ".", "Y", "o", "u", "T", "u", "b", "e", ".", "c",
            "o", "m">>, <<"e", "x", "a", "m", "p", "l", "e", ".", "c", "o",
                  "m">>, <<"[", "y", "o", "u", "t", "u", ".", "b", "e">>}

ShortUrl(h, x) == <<"h", "t", "t", "p", "s", ":", "/", "/">> \o h \o <<"/">> \o x
WatchUrl(h, x) == <<"h", "t", "t", "p", "s", ":", "/", "/">> \o h \o <<"/",
        "w", "a", "t", "c", "h", "?", "v", "=">> \o x
WatchUrlExtra(h, x) == <<"h", "t", "t", "p", "s", ":", "/", "/">> \o h \o <<"/",
        "w", "a", "t", "c", "h", "?", "v", "=">> \o x \o <<"&", "t", "=", "3",
        "0">>
EmbedUrl(h, x) == <<"h", "t", "t", "p", "s", ":", "/", "/">> \o h \o <<"/",
        "e", "m", "b", "e", "d", "/">> \o x
VUrl(h, x) == <<"h", "t", "t", "p", "s", ":", "/", "/">> \o h \o <<"/", "v",
        "/">> \o x

\* what follows the host
Rests(x) ==
    {<<>>, <<"/">>, <<"/", "w", "a", "t", "c", "h">>, <<"/", "w", "a", "t",
            "c", "h", "?", "t", "=", "3", "0">>, <<"/", "w", "a", "t", "c",
            "h", "?", "v", "=">>, <<"/", "e", "m", "b", "e", "d", "/">>, <<"/",
            "v", "/">>,
     <<"/">> \o x,
     <<"/", "w", "a", "t", "c", "h", "?", "v", "=">> \o x,
     <<"/", "w", "a", "t", "c", "h", "?", "v", "=">> \o x \o <<"&", "t", "=",
             "3", "0">>,
     <<"/", "w", "a", "t", "c", "h", "?", "t", "=", "3", "0", "&", "v", "=">> \o x,
     <<"/", "w", "a", "t", "c", "h", "?", "v", "=">> \o x \o <<"%", "2", "D">>,
     <<"/", "e", "m", "b", "e", "d", "/">> \o x,
     <<"/", "v", "/">> \o x,
     <<"/", "s", "h", "o", "r", "t", "s", "/">> \o x}

AllRests == UNION {Rests(x) : x \in Tokens}

Urls == {<<"h", "t", "t", "p", "s", ":", "/", "/">> \o h \o r : h \in Hosts, r \in AllRests}

\* no scheme: urlparse finds no host
BareUrls == {h \o r : h \in {<<"y", "o", "u", "t", "u", ".", "b", "e">>, <<"w",
        "w", "w", ".", "y", "o", "u", "t", "u", "b", "e", ".", "c", "o", "m">>}, r \in AllRests}

Pads == {<<>>, <<" ">>, <<"\n">>}

Padded ==
    {a \o b \o c : a \in Pads, c \in Pads,
                   b \in Tokens \cup {<<"h", "t", "t", "p", "s", ":", "/", "/",
                           "y", "o", "u", "t", "u", ".", "b", "e">> \o r : r \in AllRests}}

ResolveInputs == {None, <<>>} \cup Tokens \cup Urls \cup BareUrls \cup Padded

\* the handlers' variables, while a function is run on its own
NoRequest ==
    /\ app = "none"
    /\ language = None
    /\ show_advanced = FALSE
    /\ button = FALSE
    /\ video_id = None
    /\ selected_language = None
    /\ selector_shown = FALSE
    /\ lookup = "none"
    /\ calls = <<>>
    /\ response = [status |-> 0, kind |-> "none", detail |-> <<>>, body |-> <<>>]

NoResult == Ret(None, "pending", FALSE)

InitResolve ==
    /\ url \in ResolveInputs
    /\ impl \in {"new_app", "main"}
    /\ pc = "call"
    /\ result = NoResult
    /\ transcript = <<>>
    /\ formatted = <<>>
    /\ NoRequest

ResolveApi ==
    /\ impl = "new_app"
    /\ pc = "call"
    /\ result' = get_video_id_run(url)
    /\ pc' = "returned"
    /\ UNCHANGED <<url, impl, transcript, formatted, app, language,
                   show_advanced, button, video_id, selected_language,
                   selector_shown, lookup, calls, response>>

ResolveMain ==
    /\ impl = "main"
    /\ pc = "call"
    /\ result' = main_get_video_id_run(url)
    /\ pc' = "returned"
    /\ UNCHANGED <<url, impl, transcript, formatted, app, language,
                   show_advanced, button, video_id, selected_language,
                   selector_shown, lookup, calls, response>>

NextResolve == ResolveApi \/ ResolveMain

SpecResolve == InitResolve /\ [][NextResolve]_vars

----------------------------------------------------------------------------
(* format_transcript *)

\* tenths per second: a start of 65.7 is 657
Scale == 10

RECURSIVE Decimal(_)
\* the decimal digits of a natural number
Decimal(n) ==
    IF n < 10 THEN <<DigitChars[n + 1]>>
    ELSE Decimal(n \div 10) \o <<DigitChars[(n % 10) + 1]>>

\* f"{n:02d}": zero-padded to width 2, never cut
format_02d(n) ==
    IF n < 0 THEN <<"-">> \o Decimal(-n)
    ELSE IF n < 10 THEN <<"0">> \o Decimal(n)
    ELSE Decimal(n)

\* int(entry['start']) truncates towards zero
int_of(start) ==
    IF start >= 0 THEN start \div Scale ELSE -((-start) \div Scale)

\* the label with the minutes wrapped at the hour
time_str_wrapped(entry) ==
    LET timestamp == int_of(entry.start)
        minutes == (timestamp \div 60) % 60
        seconds == timestamp % 60
    IN <<"[">> \o format_02d(minutes) \o <<":">> \o format_02d(seconds) \o <<"]">>

\* timestamp, minutes, seconds and time_str of one entry
time_str(entry) ==
    LET timestamp == int_of(entry.start)
        minutes == timestamp \div 60
        seconds == timestamp % 60
    IN <<"[">> \o format_02d(minutes) \o <<":">> \o format_02d(seconds) \o <<"]">>

\* entry.get('duration', 0)
get_duration(entry) ==
    IF "duration" \in DOMAIN entry THEN entry.duration ELSE 0

TranscriptEntry(entry) ==
    [timestamp |-> time_str(entry),
     text |-> entry.text,
     start |-> entry.start,
     duration |-> get_duration(entry)]

RECURSIVE format_loop_skip_repeats(_, _)
\* the loop leaving out a cue whose text repeats the one before it
format_loop_skip_repeats(rest, formatted_entries) ==
    IF rest = <<>> THEN formatted_entries
    ELSE IF /\ formatted_entries # <<>>
            /\ formatted_entries[Len(formatted_entries)].text = Head(rest).text
    THEN format_loop_skip_repeats(Tail(rest), formatted_entries)
    ELSE format_loop_skip_repeats(Tail(rest),
             Append(formatted_entries, TranscriptEntry(Head(rest))))

RECURSIVE format_loop(_, _)
\* new_app.py: the for loop, appending one TranscriptEntry per cue
format_loop(rest, formatted_entries) ==
    IF rest = <<>> THEN formatted_entries
    ELSE format_loop(Tail(rest),
                     Append(formatted_entries, TranscriptEntry(Head(rest))))

\* new_app.py
format_transcript(t) == format_loop(t, <<>>)

RECURSIVE Join(_, _)
\* sep.join(parts)
Join(sep, parts) ==
    IF parts = <<>> THEN <<>>
    ELSE IF Len(parts) = 1 THEN parts[1]
    ELSE parts[1] \o sep \o Join(sep, Tail(parts))

\* main.py: timestamp, minutes, seconds and time_str of one entry
main_time_str(entry) ==
    LET timestamp == int_of(entry.start)
        minutes == timestamp \div 60
        seconds == timestamp % 60
    IN <<"[">> \o format_02d(minutes) \o <<":">> \o format_02d(seconds) \o <<"]">>

RECURSIVE main_format_loop(_, _)
\* main.py: the for loop, appending one line of text per cue
main_format_loop(rest, formatted_text) ==
    IF rest = <<>> THEN formatted_text
    ELSE main_format_loop(Tail(rest),
             Append(formatted_text,
                    main_time_str(Head(rest)) \o <<" ">> \o Head(rest).text))

\* main.py
main_format_transcript(t) == Join(<<"\n">>, main_format_loop(t, <<>>))

----------------------------------------------------------------------------
(* The cue sequences handed to format_transcript *)

MaxCues == 2
MaxSeconds == 6005

CueTexts == {<<>>, <<"h", "i">>, <<"s", "o", "\n", "l", "o", "n", "g">>}

\* 0.0, 65.7 and 3600.0 seconds
FewStarts == {0, (65 * Scale) + (Scale - 1), 3600 * Scale}

\* every whole second up to MaxSeconds, and the last tenth before the next
ManyStarts == {(Scale * s) + f : s \in 0..MaxSeconds, f \in {0, Scale - 1}}

Cue(text, start) == [text |-> text, start |-> start]
CueD(text, start, duration) ==
    [text |-> text, start |-> start, duration |-> duration]

Cues(starts) ==
    {Cue(x, s) : x \in CueTexts, s \in starts}
    \cup {CueD(x, s, 2 * Scale) : x \in CueTexts, s \in starts}

Transcripts ==
    UNION {[1..n -> Cues(FewStarts)] : n \in 0..MaxCues}
    \cup {<<Cue(<<"h", "i">>, s)>> : s \in ManyStarts}

InitFormat ==
    /\ transcript \in Transcripts
    /\ impl \in {"new_app", "main"}
    /\ pc = "call"
    /\ formatted = <<>>
    /\ url = None
    /\ result = NoResult
    /\ NoRequest

FormatApi ==
    /\ impl = "new_app"
    /\ pc = "call"
    /\ formatted' = format_transcript(transcript)
    /\ pc' = "returned"
    /\ UNCHANGED <<url, impl, result, transcript, app, language,
                   show_advanced, button, video_id, selected_language,
                   selector_shown, lookup, calls, response>>

FormatMain ==
    /\ impl = "main"
    /\ pc = "call"
    /\ formatted' = main_format_transcript(transcript)
    /\ pc' = "returned"
    /\ UNCHANGED <<url, impl, result, transcript, app, language,
                   show_advanced, button, video_id, selected_language,
                   selector_shown, lookup, calls, response>>

NextFormat == FormatApi \/ FormatMain

SpecFormat == InitFormat /\ [][NextFormat]_vars

----------------------------------------------------------------------------
(* The transcript provider: YouTubeTranscriptApi.get_transcript and        *)
(* list_transcripts either return or raise an exception with a message     *)

Needle == <<"U", "n", "a", "b", "l", "e", " ", "t", "o", " ", "f", "i", "n",
        "d", " ", "a", " ", "t", "r", "a", "n", "s", "c", "r", "i", "p", "t">>

\* messages that hold the needle, whole
NoTranscriptMessages ==
    {a \o Needle \o b : a \in {<<>>, <<"E", "r", "r", "o", "r", ":", " ">>}, b \in {<<>>, <<" ",
            "f", "o", "r", " ", "e", "n">>}}

\* messages that do not: none, another text, the needle cut or in another case
OtherMessages ==
    {<<>>, <<"S", "u", "b", "t", "i", "t", "l", "e", "s", " ", "a", "r", "e",
            " ", "d", "i", "s", "a", "b", "l", "e", "d", " ", "f", "o", "r",
            " ", "t", "h", "i", "s", " ", "v", "i", "d", "e", "o">>}
    \cup {a \o m \o b : a \in {<<>>, <<"E", "r", "r", "o", "r", ":", " ">>}, b \in {<<>>, <<" ",
            "f", "o", "r", " ", "e", "n">>},
                        m \in {<<"U", "n", "a", "b", "l", "e", " ", "t", "o",
                                " ", "f", "i", "n", "d", " ", "a", " ", "t",
                                "r", "a", "n", "s", "c", "r", "i", "p">>,
                               <<"u", "n", "a", "b", "l", "e", " ", "t", "o",
                                 " ", "f", "i", "n", "d", " ", "a", " ", "t",
                                 "r", "a", "n", "s", "c", "r", "i", "p", "t">>,
                               <<"U", "n", "a", "b", "l", "e", " ", "t", "o",
                                 " ", "f", "i", "n", "d", " ", " ", "a", " ",
                                 "t", "r", "a", "n", "s", "c", "r", "i", "p",
                                 "t">>}}

Messages == NoTranscriptMessages \cup OtherMessages

ProviderCues ==
    {<<>>,
     <<CueD(<<"h", "i">>, 657, 20)>>,
     <<Cue(<<"s", "o", "\n", "l", "o", "n", "g">>, 0), CueD(<<"h", "i">>, 36000, 20)>>}

Returned(value) == [kind |-> "returned", value |-> value, message |-> <<>>]
Raised(message) == [kind |-> "raised", value |-> <<>>, message |-> message]

FetchOutcomes ==
    {Returned(c) : c \in ProviderCues} \cup {Raised(m) : m \in Messages}

Track(code, name) == [language_code |-> code, language |-> name]

\* what list_transcripts found: the manually created tracks, keyed by
\* language code, and whether generated ones exist besides
TrackLists ==
    {[manual |-> <<>>, generated |-> FALSE],
     [manual |-> <<>>, generated |-> TRUE],
     [manual |-> <<Track(<<"e", "n">>, <<"e", "n", "g", "l", "i", "s", "h">>)>>, generated |-> TRUE],
     [manual |-> <<Track(<<"e", "n">>, <<"e", "n", "g", "l", "i", "s", "h">>), Track(<<"d",
             "e">>, <<"g", "e", "r", "m", "a", "n">>)>>,
      generated |-> FALSE]}

ListOutcomes ==
    {Returned(t) : t \in TrackLists}
    \cup {Raised(m) : m \in {<<"S", "u", "b", "t", "i", "t", "l", "e", "s",
            " ", "a", "r", "e", " ", "d", "i", "s", "a", "b", "l", "e", "d",
            " ", "f", "o", "r", " ", "t", "h", "i", "s", " ", "v", "i", "d",
            "e", "o">>,
                            Needle}}

\* languages=[language], or the provider's default when not passed
DefaultLanguages == <<"default">>

Call(fn, id, languages, outcome) ==
    [fn |-> fn, video_id |-> id, languages |-> languages, outcome |-> outcome]

\* s.title()
title(s) ==
    [i \in 1..Len(s) |->
        IF i = 1 \/ s[i - 1] \notin Letters
        THEN UpperChar(s[i]) ELSE LowerChar(s[i])]

----------------------------------------------------------------------------
(* new_app.py: GET /transcript and GET /languages *)

Response(status, kind, detail, body) ==
    [status |-> status, kind |-> kind, detail |-> detail, body |-> body]

NoResponse == Response(0, "none", <<>>, <<>>)

HTTPException(status_code, detail) ==
    Response(status_code, "error", detail, <<>>)

\* url: str = Query(...): a required parameter; FastAPI answers a request
\* without it 422 and does not call the handler
QueryValidation ==
    /\ app \in {"transcript", "languages"}
    /\ pc = "request"
    /\ IF url = None
       THEN /\ response' = HTTPException(422, <<"F", "i", "e", "l", "d", " ",
               "r", "e", "q", "u", "i", "r", "e", "d">>)
            /\ pc' = "done"
       ELSE /\ response' = response
            /\ pc' = "handler"
    /\ UNCHANGED <<url, impl, result, transcript, formatted, app, language,
                   show_advanced, button, video_id, selected_language,
                   selector_shown, lookup, calls>>

\* get_transcript: video_id = get_video_id(url); if not video_id: raise 400
GetTranscriptResolve ==
    /\ app = "transcript"
    /\ pc = "handler"
    /\ video_id' = get_video_id(url)
    /\ IF ~Truthy(video_id')
       THEN /\ response' = HTTPException(400, <<"I", "n", "v", "a", "l", "i",
               "d", " ", "Y", "o", "u", "T", "u", "b", "e", " ", "U", "R", "L",
               " ", "o", "r", " ", "v", "i", "d", "e", "o", " ", "I", "D">>)
            /\ pc' = "done"
       ELSE /\ response' = response
            /\ pc' = "fetch"
    /\ UNCHANGED <<url, impl, result, transcript, formatted, app, language,
                   show_advanced, button, selected_language, selector_shown,
                   lookup, calls>>

\* languages=[language] passed whether or not a language was given
languages_arg_always(lang) == <<lang>>

\* the languages argument of the one call the try block makes
languages_arg(lang) ==
    IF Truthy(lang) THEN <<lang>> ELSE DefaultLanguages

\* the except clause comparing the whole message with the needle
transcript_error_whole_message(error_message) ==
    IF error_message = Needle
    THEN HTTPException(404, <<"N", "o", " ", "t", "r", "a", "n", "s", "c", "r",
            "i", "p", "t", " ", "a", "v", "a", "i", "l", "a", "b", "l", "e",
            " ", "f", "o", "r", " ", "t", "h", "i", "s", " ", "v", "i", "d",
            "e", "o">>)
    ELSE HTTPException(500, <<"E", "r", "r", "o", "r", " ", "f", "e", "t", "c",
            "h", "i", "n", "g", " ", "t", "r", "a", "n", "s", "c", "r", "i",
            "p", "t", ":", " ">> \o error_message)

\* the except clause: 404 when the message holds the needle, else 500
transcript_error(error_message) ==
    IF Contains(error_message, Needle)
    THEN HTTPException(404, <<"N", "o", " ", "t", "r", "a", "n", "s", "c", "r",
            "i", "p", "t", " ", "a", "v", "a", "i", "l", "a", "b", "l", "e",
            " ", "f", "o", "r", " ", "t", "h", "i", "s", " ", "v", "i", "d",
            "e", "o">>)
    ELSE HTTPException(500, <<"E", "r", "r", "o", "r", " ", "f", "e", "t", "c",
            "h", "i", "n", "g", " ", "t", "r", "a", "n", "s", "c", "r", "i",
            "p", "t", ":", " ">> \o error_message)

\* get_transcript: the try block and its except clause
GetTranscriptFetch ==
    /\ app = "transcript"
    /\ pc = "fetch"
    /\ \E outcome \in FetchOutcomes :
        /\ calls' = Append(calls, Call("get_transcript", video_id,
                                       languages_arg(language), outcome))
        /\ response' =
             IF outcome.kind = "returned"
             THEN Response(200, "ok", <<>>,
                           [video_id |-> video_id,
                            transcript |-> format_transcript(outcome.value)])
             ELSE transcript_error(outcome.message)
    /\ pc' = "done"
    /\ UNCHANGED <<url, impl, result, transcript, formatted, app, language,
                   show_advanced, button, video_id, selected_language,
                   selector_shown, lookup>>

\* get_available_languages: video_id = get_video_id(url); if not: raise 400
GetLanguagesResolve ==
    /\ app = "languages"
    /\ pc = "handler"
    /\ video_id' = get_video_id(url)
    /\ IF ~Truthy(video_id')
       THEN /\ response' = HTTPException(400, <<"I", "n", "v", "a", "l", "i",
               "d", " ", "Y", "o", "u", "T", "u", "b", "e", " ", "U", "R", "L",
               " ", "o", "r", " ", "v", "i", "d", "e", "o", " ", "I", "D">>)
            /\ pc' = "done"
       ELSE /\ response' = response
            /\ pc' = "fetch"
    /\ UNCHANGED <<url, impl, result, transcript, formatted, app, language,
                   show_advanced, button, selected_language, selector_shown,
                   lookup, calls>>

\* LanguageInfo for each manually created transcript
available_languages(tracks) ==
    [i \in 1..Len(tracks.manual) |->
        [language_code |-> tracks.manual[i].language_code,
         language_name |-> title(tracks.manual[i].language)]]

\* get_available_languages: the try block and its except clause
GetLanguagesList ==
    /\ app = "languages"
    /\ pc = "fetch"
    /\ \E outcome \in ListOutcomes :
        /\ calls' = Append(calls, Call("list_transcripts", video_id,
                                       DefaultLanguages, outcome))
        /\ response' =
             IF outcome.kind = "returned"
             THEN Response(200, "ok", <<>>,
                           [video_id |-> video_id,
                            available_languages |->
                                available_languages(outcome.value)])
             ELSE HTTPException(500, <<"E", "r", "r", "o", "r", " ", "f", "e",
                     "t", "c", "h", "i", "n", "g", " ", "a", "v", "a", "i",
                     "l", "a", "b", "l", "e", " ", "l", "a", "n", "g", "u",
                     "a", "g", "e", "s", ":", " ">>
                                     \o outcome.message)
    /\ pc' = "done"
    /\ UNCHANGED <<url, impl, result, transcript, formatted, app, language,
                   show_advanced, button, video_id, selected_language,
                   selector_shown, lookup>>

----------------------------------------------------------------------------
(* main.py: one run of the Streamlit script *)

\* the codes offered by st.selectbox
language_options(tracks) ==
    [i \in 1..Len(tracks.manual) |-> tracks.manual[i].language_code]

\* the lookup ending the script run when list_transcripts raises
UiLanguageLookup_stops ==
    /\ app = "ui"
    /\ pc = "script"
    /\ IF ~show_advanced
       THEN /\ lookup' = "skipped"
            /\ pc' = "button"
            /\ UNCHANGED <<video_id, selected_language, selector_shown, calls>>
       ELSE IF ~Truthy(url)
       THEN /\ lookup' = "no_id"
            /\ pc' = "button"
            /\ UNCHANGED <<video_id, selected_language, selector_shown, calls>>
       ELSE /\ video_id' = main_get_video_id(url)
            /\ IF ~Truthy(video_id')
               THEN /\ lookup' = "no_id"
                    /\ pc' = "button"
                    /\ UNCHANGED <<selected_language, selector_shown, calls>>
               ELSE \E outcome \in ListOutcomes :
                    /\ calls' = Append(calls,
                                       Call("list_transcripts", video_id',
                                            DefaultLanguages, outcome))
                    /\ IF outcome.kind = "raised"
                       THEN /\ lookup' = "raised"
                            /\ pc' = "done"
                            /\ UNCHANGED <<selected_language, selector_shown>>
                       ELSE IF language_options(outcome.value) = <<>>
                       THEN /\ lookup' = "empty"
                            /\ pc' = "button"
                            /\ UNCHANGED <<selected_language, selector_shown>>
                       ELSE /\ lookup' = "listed"
                            /\ pc' = "button"
                            /\ selector_shown' = TRUE
                            /\ selected_language' \in
                                   Range(language_options(outcome.value))
    /\ UNCHANGED <<url, impl, result, transcript, formatted, app, language,
                   show_advanced, button, response>>

\* "Show advanced options": the language lookup and its selector
UiLanguageLookup ==
    /\ app = "ui"
    /\ pc = "script"
    /\ pc' = "button"
    /\ IF ~show_advanced
       THEN /\ lookup' = "skipped"
            /\ UNCHANGED <<video_id, selected_language, selector_shown, calls>>
       ELSE IF ~Truthy(url)
       THEN /\ lookup' = "no_id"
            /\ UNCHANGED <<video_id, selected_language, selector_shown, calls>>
       ELSE /\ video_id' = main_get_video_id(url)
            /\ IF ~Truthy(video_id')
               THEN /\ lookup' = "no_id"
                    /\ UNCHANGED <<selected_language, selector_shown, calls>>
               ELSE \E outcome \in ListOutcomes :
                    /\ calls' = Append(calls,
                                       Call("list_transcripts", video_id',
                                            DefaultLanguages, outcome))
                    /\ IF outcome.kind = "raised"
                       THEN /\ lookup' = "raised"
                            /\ UNCHANGED <<selected_language, selector_shown>>
                       ELSE IF language_options(outcome.value) = <<>>
                       THEN /\ lookup' = "empty"
                            /\ UNCHANGED <<selected_language, selector_shown>>
                       ELSE /\ lookup' = "listed"
                            /\ selector_shown' = TRUE
                            /\ selected_language' \in
                                   Range(language_options(outcome.value))
    /\ UNCHANGED <<url, impl, result, transcript, formatted, app, language,
                   show_advanced, button, response>>

st_error(detail) == Response(0, "error", detail, <<>>)

\* "Get Transcript": the checks before the try block
UiButtonResolve ==
    /\ app = "ui"
    /\ pc = "button"
    /\ IF ~button
       THEN /\ pc' = "done"
            /\ UNCHANGED <<video_id, response>>
       ELSE IF ~Truthy(url)
       THEN /\ pc' = "done"
            /\ response' = st_error(<<"P", "l", "e", "a", "s", "e", " ", "e",
                    "n", "t", "e", "r", " ", "a", " ", "Y", "o", "u", "T", "u",
                    "b", "e", " ", "U", "R", "L", " ", "o", "r", " ", "v", "i",
                    "d", "e", "o", " ", "I", "D", ".">>)
            /\ UNCHANGED video_id
       ELSE /\ video_id' = main_get_video_id(url)
            /\ IF ~Truthy(video_id')
               THEN /\ pc' = "done"
                    /\ response' = st_error(
                         <<"I", "n", "v", "a", "l", "i", "d", " ", "Y", "o",
                           "u", "T", "u", "b", "e", " ", "U", "R", "L", " ",
                           "o", "r", " ", "v", "i", "d", "e", "o", " ", "I",
                           "D", ".", " ", "P", "l", "e", "a", "s", "e", " ",
                           "c", "h", "e", "c", "k", " ", "a", "n", "d", " ",
                           "t", "r", "y", " ", "a", "g", "a", "i", "n", ".">>)
               ELSE /\ pc' = "fetch"
                    /\ response' = response
    /\ UNCHANGED <<url, impl, result, transcript, formatted, app, language,
                   show_advanced, button, selected_language, selector_shown,
                   lookup, calls>>

\* main.py: the languages argument of the one call the try block makes
main_languages_arg(lang) ==
    IF Truthy(lang) THEN <<lang>> ELSE DefaultLanguages

\* main.py: the except clause
main_transcript_error(error_message) ==
    IF Contains(error_message, Needle)
    THEN st_error(<<"N", "o", " ", "t", "r", "a", "n", "s", "c", "r", "i", "p",
            "t", " ", "a", "v", "a", "i", "l", "a", "b", "l", "e", " ", "f",
            "o", "r", " ", "t", "h", "i", "s", " ", "v", "i", "d", "e", "o",
            ".", " ", "T", "h", "e", " ", "v", "i", "d", "e", "o", " ", "m",
            "i", "g", "h", "t", " ", "n", "o", "t", " ", "h", "a", "v", "e",
            " ", "c", "l", "o", "s", "e", "d", " ", "c", "a", "p", "t", "i",
            "o", "n", "s", ".">>)
    ELSE st_error(<<"E", "r", "r", "o", "r", " ", "f", "e", "t", "c", "h", "i",
            "n", "g", " ", "t", "r", "a", "n", "s", "c", "r", "i", "p", "t",
            ":", " ">> \o error_message)

\* "Get Transcript": the try block and its except clause
UiButtonFetch ==
    /\ app = "ui"
    /\ pc = "fetch"
    /\ \E outcome \in FetchOutcomes :
        /\ calls' = Append(calls, Call("get_transcript", video_id,
                                       main_languages_arg(selected_language),
                                       outcome))
        /\ response' =
             IF outcome.kind = "returned"
             THEN Response(0, "success",
                           <<"T", "r", "a", "n", "s", "c", "r", "i", "p", "t",
                             " ", "f", "e", "t", "c", "h", "e", "d", " ", "s",
                             "u", "c", "c", "e", "s", "s", "f", "u", "l", "l",
                             "y", "!">>,
                           [formatted_transcript |->
                                main_format_transcript(outcome.value),
                            file_name |->
                                <<"t", "r", "a", "n", "s", "c", "r", "i", "p",
                                  "t", "_">> \o video_id \o <<".", "t", "x",
                                        "t">>])
             ELSE main_transcript_error(outcome.message)
    /\ pc' = "done"
    /\ UNCHANGED <<url, impl, result, transcript, formatted, app, language,
                   show_advanced, button, video_id, selected_language,
                   selector_shown, lookup>>

----------------------------------------------------------------------------
(* Requests and script runs *)

AppTokens == {Stem, Stem \o <<"-">>, Stem \o <<"Q", "!">>}

AppRests == UNION {Rests(x) : x \in AppTokens}

AppInputs ==
    {<<>>} \cup AppTokens
    \cup {<<"h", "t", "t", "p", "s", ":", "/", "/">> \o h \o r : h \in Hosts, r \in AppRests}
    \cup {a \o x \o c : a \in Pads, c \in Pads, x \in {Stem \o <<"-">>}}

\* st.text_input is a single-line field: its value holds no line break
UiInputs == {u \in AppInputs : "\n" \notin Range(u)}

LanguageParams == {None, <<>>, <<"e", "n">>}

Init ==
    /\ app \in {"transcript", "languages", "ui"}
    /\ url \in IF app = "ui" THEN UiInputs ELSE AppInputs \cup {None}
    /\ language \in IF app = "transcript" THEN LanguageParams ELSE {None}
    /\ show_advanced \in IF app = "ui" THEN BOOLEAN ELSE {FALSE}
    /\ button \in IF app = "ui" THEN BOOLEAN ELSE {FALSE}
    /\ pc = IF app = "ui" THEN "script" ELSE "request"
    /\ video_id = None
    /\ selected_language = None
    /\ selector_shown = FALSE
    /\ lookup = "none"
    /\ calls = <<>>
    /\ response = NoResponse
    /\ impl = IF app = "ui" THEN "main" ELSE "new_app"
    /\ result = NoResult
    /\ transcript = <<>>
    /\ formatted = <<>>

Next ==
    \/ QueryValidation
    \/ GetTranscriptResolve
    \/ GetTranscriptFetch
    \/ GetLanguagesResolve
    \/ GetLanguagesList
    \/ UiLanguageLookup
    \/ UiButtonResolve
    \/ UiButtonFetch

Spec == Init /\ [][Next]_vars

----------------------------------------------------------------------------
(* Properties of get_video_id, checked under SpecResolve *)

\* C1: every input of exactly 11 characters of [a-zA-Z0-9_-] is returned
\* unchanged by get_video_id, in new_app.py and in main.py, by the direct-ID
\* return and before urlparse has been called.
C1_DirectIdReturnedUnchanged ==
    (pc = "returned" /\ IsVideoId(url)) =>
        /\ result.ret = url
        /\ result.branch = "direct"
        /\ ~result.parsed

C1_Witness ==
    /\ pc = "returned"
    /\ impl = "main"
    /\ url = Stem \o <<"-">>
    /\ result.ret = url
    /\ result.branch = "direct"

\* C3: a valid 11-character identifier with whitespace added before and/or
\* after it resolves to the bare identifier.
C3_PaddedIdResolvesToBareId ==
    pc = "returned" =>
        \A x \in Tokens, a \in Pads, c \in Pads :
            (IsVideoId(x) /\ url = a \o x \o c) => result.ret = x

\* C4: for every identifier X the short link, the watch URL (with or without
\* a further query parameter), the embed URL and the /v/ URL built around X,
\* each with or without www, all resolve to X.
C4_EveryUrlShapeYieldsTheId ==
    pc = "returned" =>
        \A x \in Tokens :
            IsVideoId(x) =>
                /\ \A h \in {<<"y", "o", "u", "t", "u", ".", "b", "e">>, <<"w",
                        "w", "w", ".", "y", "o", "u", "t", "u", ".", "b", "e">>} :
                       url = ShortUrl(h, x) => result.ret = x
                /\ \A h \in {<<"y", "o", "u", "t", "u", "b", "e", ".", "c",
                        "o", "m">>, <<"w", "w", "w", ".", "y", "o", "u", "t",
                        "u", "b", "e", ".", "c", "o", "m">>} :
                       url \in {WatchUrl(h, x), WatchUrlExtra(h, x),
                                EmbedUrl(h, x), VUrl(h, x)}
                           => result.ret = x

C4_Witness ==
    /\ pc = "returned"
    /\ url = WatchUrlExtra(<<"w", "w", "w", ".", "y", "o", "u", "t", "u", "b",
            "e", ".", "c", "o", "m">>, Stem \o <<"Q">>)
    /\ result.ret = Stem \o <<"Q">>
    /\ result.branch = "watch"

----------------------------------------------------------------------------
(* Properties of format_transcript, checked under SpecFormat *)

DigitValue(c) == (CHOOSE i \in 1..Len(DigitChars) : DigitChars[i] = c) - 1

RECURSIVE DecimalValue(_)
DecimalValue(ds) ==
    IF ds = <<>> THEN 0
    ELSE (10 * DecimalValue(SubSeq(ds, 1, Len(ds) - 1))) + DigitValue(ds[Len(ds)])

AllDigits(ds) == ds # <<>> /\ \A i \in 1..Len(ds) : ds[i] \in Range(DigitChars)

\* the whole seconds of a non-negative start
WholeSeconds(start) == start \div Scale

\* label reads [MM:SS] for the start, read back from its characters
LabelFor(label, start) ==
    LET inner == SubSeq(label, 2, Len(label) - 1)
        parts == Split(inner, ":")
        s == WholeSeconds(start)
    IN /\ Len(label) >= 2
       /\ label[1] = "["
       /\ label[Len(label)] = "]"
       /\ Len(parts) = 2
       /\ AllDigits(parts[1])
       /\ AllDigits(parts[2])
       /\ Len(parts[1]) >= 2
       /\ Len(parts[2]) = 2
       /\ Len(parts[1]) > 2 => parts[1][1] # "0"
       /\ DecimalValue(parts[2]) \in 0..59
       /\ (60 * DecimalValue(parts[1])) + DecimalValue(parts[2]) = s
       /\ s >= 3600 => DecimalValue(parts[1]) >= 60
       /\ s >= 6000 => Len(parts[1]) >= 3

\* the label that opens a line of the rendered text
FirstLabel(text) == SubSeq(text, 1, Find(text, "]", 1))

\* entry i of the structured output is cue i
EntriesAreTheCues ==
    /\ Len(formatted) = Len(transcript)
    /\ \A i \in 1..Len(transcript) :
        /\ formatted[i].text = transcript[i].text
        /\ formatted[i].start = transcript[i].start
        /\ formatted[i].duration =
               IF "duration" \in DOMAIN transcript[i]
               THEN transcript[i].duration ELSE 0
        /\ LabelFor(formatted[i].timestamp, transcript[i].start)

\* text.splitlines() for a text that ends in no line break
Lines(text) == IF text = <<>> THEN <<>> ELSE Split(text, "\n")

LineIsCue(line, cue) ==
    /\ LabelFor(FirstLabel(line), cue.start)
    /\ From(line, Len(FirstLabel(line)) + 1) = <<" ">> \o cue.text

RECURSIVE RenderedFrom(_, _)
\* text is "{timestamp} {text}" of each cue in turn, a line break between
RenderedFrom(text, cues) ==
    IF cues = <<>> THEN text = <<>>
    ELSE LET label == FirstLabel(text)
             body == <<" ">> \o Head(cues).text
             after == From(text, Len(label) + Len(body) + 1)
         IN /\ LabelFor(label, Head(cues).start)
            /\ SubSeq(text, Len(label) + 1, Len(label) + Len(body)) = body
            /\ IF Len(cues) = 1 THEN after = <<>>
               ELSE /\ after # <<>>
                    /\ Head(after) = "\n"
                    /\ RenderedFrom(Tail(after), Tail(cues))

NoLineBreakInTexts ==
    \A i \in 1..Len(transcript) : "\n" \notin Range(transcript[i].text)

\* C7 as stated: the structured output has one entry per cue, in place, with
\* text, start and duration (0 when absent) carried over; the empty input
\* gives the empty output; main.py's text has one line per cue, in input
\* order, each "{timestamp} {text}".
C7_OneEntryAndOneLinePerCue ==
    pc = "returned" =>
        IF impl = "new_app" THEN EntriesAreTheCues
        ELSE /\ Len(Lines(formatted)) = Len(transcript)
             /\ \A i \in 1..Len(transcript) :
                    LineIsCue(Lines(formatted)[i], transcript[i])

\* C7 amended: the structured output is as stated; main.py's text is the
\* strings "{timestamp} {text}" of the cues, in input order, joined by a line
\* break, which is one line per cue when no cue text holds a line break.
C7_OneEntryPerCueJoinedByLineBreaks ==
    pc = "returned" =>
        IF impl = "new_app" THEN EntriesAreTheCues
        ELSE /\ RenderedFrom(formatted, transcript)
             /\ NoLineBreakInTexts =>
                    /\ Len(Lines(formatted)) = Len(transcript)
                    /\ \A i \in 1..Len(transcript) :
                           LineIsCue(Lines(formatted)[i], transcript[i])

C7_Witness ==
    /\ pc = "returned"
    /\ impl = "main"
    /\ Len(transcript) = 2
    /\ transcript[1] = transcript[2]
    /\ ~NoLineBreakInTexts
    /\ Len(Lines(formatted)) = 4

\* C8: for a cue with a non-negative start the label is "[MM:SS]" with
\* s = the start cut to whole seconds, MM = floor(s / 60) and SS = s mod 60,
\* each padded with zeros to at least two digits; SS is in 0..59, MM is
\* neither wrapped at 60 nor capped, and 60 * MM + SS = s.
C8_LabelIsMinutesAndSeconds ==
    pc = "returned" =>
        IF impl = "new_app"
        THEN /\ Len(formatted) = Len(transcript)
             /\ \A i \in 1..Len(transcript) :
                    transcript[i].start >= 0 =>
                        LabelFor(formatted[i].timestamp, transcript[i].start)
        ELSE (transcript # <<>> /\ transcript[1].start >= 0) =>
                 LabelFor(FirstLabel(formatted), transcript[1].start)

C8_Witness ==
    /\ pc = "returned"
    /\ impl = "new_app"
    /\ Len(transcript) = 1
    /\ transcript[1].start = (6000 * Scale) + (Scale - 1)
    /\ formatted[1].timestamp = <<"[", "1", "0", "0", ":", "0", "0", "]">>

----------------------------------------------------------------------------
(* Properties of the handlers and the script, checked under Spec *)

Fetches == SelectSeq(calls, LAMBDA c : c.fn = "get_transcript")

\* C2: every video identifier handed to the provider, by get_transcript or
\* by list_transcripts, is exactly 11 characters of [a-zA-Z0-9_-].
C2_ProviderOnlyGetsWellFormedIds ==
    \A i \in 1..Len(calls) : IsVideoId(calls[i].video_id)

\* the inputs of the classes C5 names, written out
C5_OtherHost ==
    {<<"h", "t", "t", "p", "s", ":", "/", "/", "e", "x", "a", "m", "p", "l",
       "e", ".", "c", "o", "m">> \o r : r \in AppRests}
C5_UnsupportedPath ==
    {<<"h", "t", "t", "p", "s", ":", "/", "/">> \o h \o r :
        h \in {<<"y", "o", "u", "t", "u", "b", "e", ".", "c", "o", "m">>, <<"w",
                "w", "w", ".", "y", "o", "u", "t", "u", "b", "e", ".", "c",
                "o", "m">>},
        r \in {<<>>, <<"/">>} \cup {<<"/", "s", "h", "o", "r", "t", "s", "/">> \o x : x \in AppTokens}}
C5_WatchWithoutV ==
    {<<"h", "t", "t", "p", "s", ":", "/", "/">> \o h \o r :
        h \in {<<"y", "o", "u", "t", "u", "b", "e", ".", "c", "o", "m">>, <<"w",
                "w", "w", ".", "y", "o", "u", "t", "u", "b", "e", ".", "c",
                "o", "m">>},
        r \in {<<"/", "w", "a", "t", "c", "h">>, <<"/", "w", "a", "t", "c",
                "h", "?", "t", "=", "3", "0">>}}
C5_EmptyShortLink ==
    {<<"h", "t", "t", "p", "s", ":", "/", "/">> \o h \o r :
        h \in {<<"y", "o", "u", "t", "u", ".", "b", "e">>, <<"w", "w", "w",
                ".", "y", "o", "u", "t", "u", ".", "b", "e">>}, r \in {<<>>, <<"/">>}}
C5_EmptySegment ==
    {<<"h", "t", "t", "p", "s", ":", "/", "/">> \o h \o r :
        h \in {<<"y", "o", "u", "t", "u", "b", "e", ".", "c", "o", "m">>, <<"w",
                "w", "w", ".", "y", "o", "u", "t", "u", "b", "e", ".", "c",
                "o", "m">>},
        r \in {<<"/", "e", "m", "b", "e", "d", "/">>, <<"/", "v", "/">>}}
C5_FailingUrls ==
    {<<>>} \cup C5_OtherHost \cup C5_UnsupportedPath \cup C5_WatchWithoutV
    \cup C5_EmptyShortLink \cup C5_EmptySegment

\* C5 as stated: for an empty or absent input and for a URL of each failing
\* class, GET /transcript and GET /languages answer 400 and never call the
\* provider.
C5_FailingInputsAnswer400 ==
    (app \in {"transcript", "languages"} /\ url \in C5_FailingUrls \cup {None}) =>
        /\ calls = <<>>
        /\ pc = "done" => response.status = 400

\* C5 amended: for an empty input and for a URL of each failing class,
\* get_video_id yields nothing usable, both endpoints answer 400 and never
\* call the provider; a request with no url parameter is answered 422 before
\* the handler runs, the provider not called either.
C5_FailingInputsAnswer400Absent422 ==
    (app \in {"transcript", "languages"} /\ url \in C5_FailingUrls \cup {None}) =>
        /\ calls = <<>>
        /\ ~Truthy(video_id)
        /\ pc = "done" => response.status = IF url = None THEN 422 ELSE 400
        /\ pc = "done" => response.kind = "error"
        /\ pc # "fetch"

C5_Witness ==
    /\ app = "languages"
    /\ pc = "done"
    /\ url = <<"h", "t", "t", "p", "s", ":", "/", "/", "w", "w", "w", ".", "y",
            "o", "u", "t", "u", "b", "e", ".", "c", "o", "m", "/", "w", "a",
            "t", "c", "h", "?", "t", "=", "3", "0">>
    /\ response.status = 400
    /\ calls = <<>>

\* the outcome of a GET /transcript whose handler ran
C6_HandlerOutcome ==
    IF ~Truthy(video_id)
    THEN /\ response.status = 400
         /\ calls = <<>>
    ELSE /\ Len(calls) = 1
         /\ calls[1].outcome.kind = "returned" =>
                /\ response.status = 200
                /\ response.body.video_id = video_id
                /\ Len(response.body.transcript) = Len(calls[1].outcome.value)
         /\ (/\ calls[1].outcome.kind = "raised"
             /\ calls[1].outcome.message \in NoTranscriptMessages) =>
                /\ response.status = 404
                /\ ~Contains(response.detail, calls[1].outcome.message)
         /\ (/\ calls[1].outcome.kind = "raised"
             /\ calls[1].outcome.message \in OtherMessages) =>
                /\ response.status = 500
                /\ response.detail =
                       <<"E", "r", "r", "o", "r", " ", "f", "e", "t", "c", "h",
                         "i", "n", "g", " ", "t", "r", "a", "n", "s", "c", "r",
                         "i", "p", "t", ":", " ">> \o calls[1].outcome.message

\* C6 as stated: every GET /transcript ends in one of 400 (resolution
\* failed), 200 with {video_id, transcript} (the provider returned cues),
\* 404 (the provider's message holds "Unable to find a transcript"; the
\* detail does not hold the message) or 500 with the message in the detail.
C6_TranscriptOutcomes ==
    (app = "transcript" /\ pc = "done") => C6_HandlerOutcome

\* C6 amended: every GET /transcript that carries a url parameter ends in
\* one of the four outcomes as stated; one without it is answered 422.
C6_TranscriptOutcomesGivenUrl ==
    (app = "transcript" /\ pc = "done") =>
        IF url = None
        THEN response.status = 422 /\ calls = <<>>
        ELSE C6_HandlerOutcome

C6_Witness ==
    /\ app = "transcript"
    /\ pc = "done"
    /\ Len(calls) = 1
    /\ calls[1].outcome = Raised(<<"E", "r", "r", "o", "r", ":", " ">> \o Needle \o <<" ",
            "f", "o", "r", " ", "e", "n">>)
    /\ response.status = 404

\* C9: in one request or script run the provider's get_transcript is called
\* at most once, failed or not, only once get_video_id has returned a usable
\* identifier and with that identifier; languages=[language] is passed only
\* when a language was given, the provider's default is used otherwise.
C9_OneFetchWithTheResolvedId ==
    LET lang == IF app = "ui" THEN selected_language ELSE language
    IN /\ Len(Fetches) <= 1
       /\ pc \in {"request", "handler", "script", "button", "fetch"} =>
              Fetches = <<>>
       /\ pc = "fetch" => Truthy(video_id)
       /\ \A i \in 1..Len(Fetches) :
            /\ Truthy(video_id)
            /\ Fetches[i].video_id = video_id
            /\ Fetches[i].languages # DefaultLanguages =>
                   lang # None /\ Fetches[i].languages = <<lang>>
            /\ lang \in {None, <<>>} => Fetches[i].languages = DefaultLanguages

C9_Witness ==
    /\ app = "transcript"
    /\ pc = "done"
    /\ language = <<"e", "n">>
    /\ Len(calls) = 1
    /\ calls[1].outcome.kind = "raised"
    /\ calls[1].languages = <<<<"e", "n">>>>

\* C10: in main.py, when the language listing raises or reports no tracks,
\* no selector is shown, selected_language stays None, the run goes on, and
\* "Get Transcript" still calls get_transcript with the default languages.
C10_FailedLookupDoesNotBlockFetch ==
    (app = "ui" /\ lookup \in {"raised", "empty"}) =>
        /\ ~selector_shown
        /\ selected_language = None
        /\ Truthy(video_id)
        /\ pc \in {"button", "fetch", "done"}
        /\ pc = "fetch" => button
        /\ (pc = "done" /\ button) =>
               /\ Len(Fetches) = 1
               /\ Fetches[1].video_id = video_id
               /\ Fetches[1].languages = DefaultLanguages

C10_Witness ==
    /\ app = "ui"
    /\ lookup = "raised"
    /\ pc = "done"
    /\ button
    /\ Len(calls) = 2
    /\ calls[2].fn = "get_transcript"
    /\ calls[2].outcome.kind = "returned"

====
